---- MODULE Spec2Model ----
(***************************************************************************)
(* Model of the dcmtag2table export pipeline.                              *)
(*                                                                         *)
(*  - the extraction CLI (python_script/main.py) and the parallel reader   *)
(*    dcmtag2table_from_file_list / _read_dicom_tags (dcmtag2table.py);    *)
(*  - the inverted index builder (build_inverted_index.py).                *)
(*                                                                         *)
(* Python strings on which the code does character work (paths that are    *)
(* compared, cells that are stripped, tag names that are sanitized) are    *)
(* tuples of one-character strings: "a b" is <<"a", " ", "b">>.            *)
(***************************************************************************)
EXTENDS Integers, Sequences, FiniteSets, TLC

(***************************************************************************)
(* Bounds of the model.                                                    *)
(***************************************************************************)
\* longest manifest (number of entries) that is explored
MaxFiles == 3
\* largest --max-workers value that is explored
MaxWorkersArg == 2

(***************************************************************************)
(* Generic helpers.                                                        *)
(***************************************************************************)
Range(s) == {s[i] : i \in 1..Len(s)}

SeqsUpTo(S, n) == UNION {[1..k -> S] : k \in 0..n}

Perms(n) == {p \in [1..n -> 1..n] : \A i, j \in 1..n : i # j => p[i] # p[j]}

\* [x for x in s if Keep(x)]
FilterSeq(s, Keep(_)) == SelectSeq(s, Keep)

(***************************************************************************)
(* Python str ordering: lexicographic by code point.                       *)
(***************************************************************************)
\* the characters of the modelled strings, by class, in code point order
Digits == <<"0", "1", "2", "3", "4", "5", "6", "7", "8", "9">>
Upper ==
    <<"A", "B", "C", "D", "E", "F", "G", "H", "I", "J", "K", "L", "M",
      "N", "O", "P", "Q", "R", "S", "T", "U", "V", "W", "X", "Y", "Z">>
Lower ==
    <<"a", "b", "c", "d", "e", "f", "g", "h", "i", "j", "k", "l", "m",
      "n", "o", "p", "q", "r", "s", "t", "u", "v", "w", "x", "y", "z">>
Punct == {<<" ", 32>>, <<"#", 35>>, <<"-", 45>>, <<".", 46>>, <<"/", 47>>,
          <<"_", 95>>}

IndexIn(s, c) == CHOOSE i \in 1..Len(s) : s[i] = c

\* ord(c)
Ord ==
    [c \in Range(Digits) \cup Range(Upper) \cup Range(Lower)
           \cup {e[1] : e \in Punct} |->
        IF c \in Range(Digits) THEN 47 + IndexIn(Digits, c)
        ELSE IF c \in Range(Upper) THEN 64 + IndexIn(Upper, c)
        ELSE IF c \in Range(Lower) THEN 96 + IndexIn(Lower, c)
        ELSE (CHOOSE e \in Punct : e[1] = c)[2]]

RECURSIVE StrLeq(_, _)
StrLeq(s, t) ==
    IF s = <<>> THEN TRUE
    ELSE IF t = <<>> THEN FALSE
    ELSE IF Ord[Head(s)] < Ord[Head(t)] THEN TRUE
    ELSE IF Ord[Head(s)] > Ord[Head(t)] THEN FALSE
    ELSE StrLeq(Tail(s), Tail(t))

(***************************************************************************)
(* The world the extraction CLI runs in.                                   *)
(***************************************************************************)
\* path strings a manifest entry may hold; <<>> is the empty (falsy) path
Paths == {<<>>, <<"B">>, <<"a">>, <<"a", "b">>}
RealPaths == Paths \ {<<>>}

\* the sentinel of _read_dicom_tags
NotFound == "Not found"

\* DICOM datasets, as sets of <<keyword, value>> elements
DsCT == {<<"Modality", "CT">>}
DsMR == {<<"Modality", "MR">>, <<"PatientID", "P1">>}

\* what is at a path:
\*   missing    no such file (Path.exists() is false)
\*   unreadable dcmread or the tag lookup raises inside the worker
\*   broken     the worker's result never arrives: future.result() raises
\*   dicom      a readable dataset
FileContents ==
    {[kind |-> "missing", ds |-> {}], [kind |-> "unreadable", ds |-> {}],
     [kind |-> "broken", ds |-> {}],
     [kind |-> "dicom", ds |-> DsCT], [kind |-> "dicom", ds |-> DsMR]}

\* the tag lists (load_tags results) that are explored
TagLists == {<<"PatientID", "Modality">>}

VARIABLES
    manifest,     \* main.py: the manifest's entries, one path string each
    files,        \* the file system: path -> FileContents
    list_of_tags, \* the tags to extract
    max_workers,  \* --max-workers as given on the command line
    pc,           \* position of main / dcmtag2table_from_file_list
    filelist,     \* the file list after filtering
    fut,          \* futures: unit index -> "pending" | "running" | "done"
    handled,      \* units the as_completed loop has consumed
    rows,         \* dcmtag2table_from_file_list: rows, in completion order
    df,           \* the DataFrame: sequence of [index, row], or <<>>
    csv_out,      \* the CSV file in the output directory: <<>> is "no file"
    stdout,       \* lines printed to stdout
    stderr,       \* lines printed to stderr
    exit_code     \* -1 while running

evars == <<manifest, files, list_of_tags, max_workers, pc, filelist, fut,
           handled, rows, df, csv_out, stdout, stderr, exit_code>>

VARIABLES
    caller,           \* "main": the CLI; "test": build_indexes called directly
    csv_exists,       \* csv_path.exists()
    tags_exists,      \* tags_path.exists()
    tags_lines,       \* the lines of the tags file
    header,           \* the CSV's header row; <<>> when the file is empty
    study_uid_column, \* --study-uid-column
    token_arg,        \* --missing-token values / the set a direct caller passes
    ipc,              \* position of the index builder
    tags,             \* load_tags result
    missing_tokens,   \* the set handed to build_indexes
    table,            \* the CSV rows read so far
    indexes,          \* tag -> (value -> set of study uids)
    error,            \* what build_indexes raised
    written,          \* write_indexes: number of tags written
    index_manifest,   \* write_indexes: filename -> sorted values
    outdir,           \* the output directory: filename -> content
    iexit             \* exit code of the index builder, -1 while running

ivars == <<caller, csv_exists, tags_exists, tags_lines, header,
           study_uid_column, token_arg, ipc, tags, missing_tokens, table,
           indexes, error, written, index_manifest, outdir, iexit>>

vars == <<evars, ivars>>

Line(kind, path, n) == [kind |-> kind, path |-> path, n |-> n]

(***************************************************************************)
(* dcmtag2table.py                                                         *)
(***************************************************************************)
DsHas(ds, tag) == \E e \in ds : e[1] = tag
DsValue(ds, tag) == (CHOOSE e \in ds : e[1] = tag)[2]

\* Python's None where a row is expected (a row is never empty)
None == <<>>

\* _read_dicom_tags returning the row it had begun instead of None
read_dicom_tags_partial(filepath, ts) ==
    IF files[filepath].kind = "dicom"
    THEN <<filepath>> \o
         [i \in 1..Len(ts) |->
            IF DsHas(files[filepath].ds, ts[i])
            THEN DsValue(files[filepath].ds, ts[i])
            ELSE NotFound]
    ELSE <<filepath>> \o [i \in 1..Len(ts) |-> NotFound]

\* _read_dicom_tags: the row [filepath, tag1, ...], or None on failure
read_dicom_tags(filepath, ts) ==
    IF files[filepath].kind = "dicom"
    THEN <<filepath>> \o
         [i \in 1..Len(ts) |->
            IF DsHas(files[filepath].ds, ts[i])
            THEN DsValue(files[filepath].ds, ts[i])
            ELSE NotFound]
    ELSE None

\* future.result() for unit i raises
ResultRaises(i) == files[filelist[i]].kind = "broken"

\* sort_values with ascending=False
SortValuesDescending(frame) ==
    {[k \in 1..Len(frame) |-> frame[p[k]]] : p \in
        {q \in Perms(Len(frame)) :
            \A k \in 1..(Len(frame) - 1) :
                StrLeq(frame[q[k + 1]].row[1], frame[q[k]].row[1])}}

\* the frame left in completion order
SortValuesSkipped(frame) == {frame}

\* df.sort_values(by=["Filename"], ascending=True): the default sort kind is
\* not stable, so rows with equal Filename may come out in either order
SortValues(frame) ==
    {[k \in 1..Len(frame) |-> frame[p[k]]] : p \in
        {q \in Perms(Len(frame)) :
            \A k \in 1..(Len(frame) - 1) :
                StrLeq(frame[q[k]].row[1], frame[q[k + 1]].row[1])}}

\* pd.DataFrame(rows, columns=...): the index is the position in rows
DataFrame(rs) == [i \in 1..Len(rs) |-> [index |-> i - 1, row |-> rs[i]]]

Columns(ts) == <<"Filename">> \o ts

(***************************************************************************)
(* main.py                                                                 *)
(***************************************************************************)
\* load_manifest: falsy entries are dropped
load_manifest(items) == FilterSeq(items, LAMBDA p : p # <<>>)

PathExists(p) == files[p].kind # "missing"

RECURSIVE MissingLines(_)
MissingLines(fl) ==
    IF fl = <<>> THEN <<>>
    ELSE IF PathExists(Head(fl)) THEN MissingLines(Tail(fl))
         ELSE <<Line("Missing file", Head(fl), 0)>> \o MissingLines(Tail(fl))

IdleI ==
    /\ caller = "none"
    /\ csv_exists = FALSE
    /\ tags_exists = FALSE
    /\ tags_lines = <<>>
    /\ header = <<>>
    /\ study_uid_column = <<>>
    /\ token_arg = {}
    /\ ipc = "idle"
    /\ tags = <<>>
    /\ missing_tokens = {}
    /\ table = <<>>
    /\ indexes = <<>>
    /\ error = [kind |-> "none", names |-> <<>>]
    /\ written = 0
    /\ index_manifest = <<>>
    /\ outdir = <<>>
    /\ iexit = -1

InitE ==
    /\ IdleI
    /\ manifest \in SeqsUpTo(Paths, MaxFiles)
    /\ files \in [RealPaths -> FileContents]
    \* a path the manifest does not name is never touched: let it be missing
    /\ \A p \in RealPaths \ Range(manifest) : files[p].kind = "missing"
    /\ list_of_tags \in TagLists
    /\ max_workers \in 0..MaxWorkersArg
    /\ pc = "main"
    /\ filelist = <<>>
    /\ fut = <<>>
    /\ handled = {}
    /\ rows = <<>>
    /\ df = <<>>
    /\ csv_out = <<>>
    /\ stdout = <<>>
    /\ stderr = <<>>
    /\ exit_code = -1

\* main, lines 110-123: load the manifest, drop the files that do not exist
MainLoad ==
    /\ pc = "main"
    /\ IF manifest = <<>>
       THEN /\ pc' = "exit"
            /\ exit_code' = 1
            /\ stderr' = stderr \o <<Line("ERROR", <<>>, 0)>>
            /\ UNCHANGED filelist
       ELSE /\ pc' = "call"
            /\ filelist' = FilterSeq(load_manifest(manifest), PathExists)
            /\ stderr' = stderr \o MissingLines(load_manifest(manifest))
            /\ UNCHANGED exit_code
    /\ UNCHANGED <<manifest, files, list_of_tags, max_workers, fut, handled,
                   rows, df, csv_out, stdout>>
    /\ UNCHANGED ivars

\* dcmtag2table_from_file_list, lines 36-44: filter, then submit every unit
Call ==
    /\ pc = "call"
    /\ filelist' = FilterSeq(filelist, LAMBDA p : p # <<>>)
    /\ IF filelist' = <<>>
       THEN /\ pc' = "returned"
            /\ fut' = <<>>
       ELSE /\ pc' = "pool"
            /\ fut' = [i \in 1..Len(filelist') |-> "pending"]
    /\ UNCHANGED <<manifest, files, list_of_tags, max_workers, handled, rows,
                   df, csv_out, stdout, stderr, exit_code>>
    /\ UNCHANGED ivars

\* int(args.max_workers) without the clamp
PoolSizeUnclamped == max_workers

\* main, line 130: max(1, int(args.max_workers))
PoolSize == IF max_workers < 1 THEN 1 ELSE max_workers

Running == {i \in DOMAIN fut : fut[i] = "running"}

\* a free worker process takes the oldest queued unit
StartUnit(i) ==
    /\ pc = "pool"
    /\ fut[i] = "pending"
    /\ \A j \in 1..(i - 1) : fut[j] # "pending"
    /\ Cardinality(Running) < PoolSize
    /\ fut' = [fut EXCEPT ![i] = "running"]
    /\ UNCHANGED <<manifest, files, list_of_tags, max_workers, pc, filelist,
                   handled, rows, df, csv_out, stdout, stderr, exit_code>>
    /\ UNCHANGED ivars

\* a worker finishes _read_dicom_tags for its unit
FinishUnit(i) ==
    /\ pc = "pool"
    /\ fut[i] = "running"
    /\ fut' = [fut EXCEPT ![i] = "done"]
    /\ UNCHANGED <<manifest, files, list_of_tags, max_workers, pc, filelist,
                   handled, rows, df, csv_out, stdout, stderr, exit_code>>
    /\ UNCHANGED ivars

\* future.result() as the loop of lines 45-54 sees it
UnitResult(i) ==
    IF ResultRaises(i) THEN None ELSE read_dicom_tags(filelist[i], list_of_tags)

\* one iteration of the as_completed loop, lines 45-54
Handle(i) ==
    /\ pc = "pool"
    /\ fut[i] = "done"
    /\ i \notin handled
    /\ handled' = handled \cup {i}
    /\ IF UnitResult(i) = None
       THEN /\ stdout' = stdout \o <<Line("Skipping", filelist[i], 0)>>
            /\ UNCHANGED rows
       ELSE /\ rows' = Append(rows, UnitResult(i))
            /\ UNCHANGED stdout
    /\ UNCHANGED <<manifest, files, list_of_tags, max_workers, pc, filelist,
                   fut, df, csv_out, stderr, exit_code>>
    /\ UNCHANGED ivars

\* leaving the loop after the first future
FirstConsumed == handled # {}

\* the as_completed loop ends when it has yielded every future
AllConsumed == handled = DOMAIN fut

\* lines 56-59: every future was consumed; build, sort and return the frame
Finalize ==
    /\ pc = "pool"
    /\ AllConsumed
    /\ IF rows = <<>>
       THEN df' = DataFrame(rows)
       ELSE df' \in SortValues(DataFrame(rows))
    /\ pc' = "returned"
    /\ UNCHANGED <<manifest, files, list_of_tags, max_workers, filelist, fut,
                   handled, rows, csv_out, stdout, stderr, exit_code>>
    /\ UNCHANGED ivars

\* df.to_csv(output_path, index=False): the header, then the rows
ToCsv(frame, ts) ==
    [header |-> Columns(ts), rows |-> [k \in 1..Len(frame) |-> frame[k].row]]

\* main, lines 133-139
WriteCsv ==
    /\ pc = "returned"
    /\ csv_out' = <<ToCsv(df, list_of_tags)>>
    /\ stdout' = stdout \o <<Line("CSV_OUTPUT", <<>>, 0),
                            Line("ROW_COUNT", <<>>, Len(df))>>
    /\ exit_code' = 0
    /\ pc' = "exit"
    /\ UNCHANGED <<manifest, files, list_of_tags, max_workers, filelist, fut,
                   handled, rows, df, stderr>>
    /\ UNCHANGED ivars

\* the caller terminates the process while it runs
Abort ==
    /\ pc \in {"main", "call", "pool", "returned"}
    /\ pc' = "aborted"
    /\ UNCHANGED <<manifest, files, list_of_tags, max_workers, filelist, fut,
                   handled, rows, df, csv_out, stdout, stderr, exit_code>>
    /\ UNCHANGED ivars

NextRun ==
    \/ MainLoad
    \/ Call
    \/ \E i \in DOMAIN fut : StartUnit(i)
    \/ \E i \in DOMAIN fut : FinishUnit(i)
    \/ \E i \in DOMAIN fut : Handle(i)
    \/ Finalize
    \/ WriteCsv

NextE == NextRun \/ Abort

\* the extraction CLI, which its caller may terminate at any time
SpecE == InitE /\ [][NextE]_vars

\* the extraction CLI left to run
SpecX == InitE /\ [][NextRun]_vars

\* the extraction CLI left to run, with workers and coordinator scheduled fairly
SpecRun == InitE /\ [][NextRun]_vars /\ WF_vars(NextRun)

(***************************************************************************)
(* build_inverted_index.py                                                 *)
(***************************************************************************)
\* longest CSV (number of data rows) that is explored
MaxRows == 2

MISSING_TOKENS ==
    {<<>>,
     <<"N", "o", "t", " ", "f", "o", "u", "n", "d">>,
     <<"N", "o", "n", "e">>, <<"n", "o", "n", "e">>,
     <<"N", "U", "L", "L">>, <<"n", "u", "l", "l">>,
     <<"n", "a", "n">>, <<"N", "a", "N">>}

\* the characters str.strip() removes
Whitespace == {" ", "\t", "\n", "\r", "\f"}

RECURSIVE LStrip(_, _)
LStrip(s, cs) ==
    IF s # <<>> /\ Head(s) \in cs THEN LStrip(Tail(s), cs) ELSE s

RECURSIVE RStrip(_, _)
RStrip(s, cs) ==
    IF s # <<>> /\ s[Len(s)] \in cs
    THEN RStrip(SubSeq(s, 1, Len(s) - 1), cs)
    ELSE s

\* s.strip(cs)
StripChars(s, cs) == RStrip(LStrip(s, cs), cs)

\* s.strip()
Strip(s) == StripChars(s, Whitespace)

\* sorted(xs) of a list of strings
RECURSIVE InsertStr(_, _)
InsertStr(sorted, x) ==
    IF sorted = <<>> THEN <<x>>
    ELSE IF StrLeq(Head(sorted), x)
         THEN <<Head(sorted)>> \o InsertStr(Tail(sorted), x)
         ELSE <<x>> \o sorted

RECURSIVE Sorted(_)
Sorted(xs) == IF xs = <<>> THEN <<>> ELSE InsertStr(Sorted(Tail(xs)), Head(xs))

\* sorted(S) of a set of strings
RECURSIVE SortedSet(_)
SortedSet(S) ==
    IF S = {} THEN <<>>
    ELSE LET m == CHOOSE x \in S : \A y \in S : StrLeq(x, y)
         IN <<m>> \o SortedSet(S \ {m})

\* load_tags
RECURSIVE load_tags(_)
load_tags(lines) ==
    IF lines = <<>> THEN <<>>
    ELSE LET trimmed == Strip(Head(lines))
         IN IF trimmed = <<>> \/ Head(trimmed) = "#"
            THEN load_tags(Tail(lines))
            ELSE <<trimmed>> \o load_tags(Tail(lines))

\* [A-Za-z0-9._-]
IsSafeChar(c) ==
    /\ c \in DOMAIN Ord
    /\ \/ Ord[c] \in 48..57
       \/ Ord[c] \in 65..90
       \/ Ord[c] \in 97..122
       \/ c \in {".", "_", "-"}

RECURSIVE DropUnsafe(_)
DropUnsafe(s) ==
    IF s # <<>> /\ ~IsSafeChar(Head(s)) THEN DropUnsafe(Tail(s)) ELSE s

\* re.sub(r"[^A-Za-z0-9._-]+", "_", s)
RECURSIVE ReSubUnsafe(_)
ReSubUnsafe(s) ==
    IF s = <<>> THEN <<>>
    ELSE IF IsSafeChar(Head(s)) THEN <<Head(s)>> \o ReSubUnsafe(Tail(s))
         ELSE <<"_">> \o ReSubUnsafe(DropUnsafe(Tail(s)))

sanitize_filename(tag) ==
    LET safe == StripChars(ReSubUnsafe(tag), {".", "_"})
    IN IF safe = <<>> THEN <<"t", "a", "g">> ELSE safe

\* f"{sanitize_filename(tag)}.json"
IndexFileName(tag) == sanitize_filename(tag) \o <<".", "j", "s", "o", "n">>

ManifestFileName == <<"i", "n", "d", "e", "x", ".", "j", "s", "o", "n">>

\* the keys of {tag: ... for tag in tags}, in insertion order
RECURSIVE DictKeys(_)
DictKeys(ts) ==
    IF ts = <<>> THEN <<>>
    ELSE LET rest == DictKeys(SubSeq(ts, 1, Len(ts) - 1))
         IN IF ts[Len(ts)] \in Range(rest) THEN rest
            ELSE Append(rest, ts[Len(ts)])

EmptyMap == [v \in {} |-> {}]

\* only the first missing tag
missing_tags_first(ts, fieldnames) ==
    IF SelectSeq(ts, LAMBDA t : t \notin Range(fieldnames)) = <<>> THEN <<>>
    ELSE <<Head(SelectSeq(ts, LAMBDA t : t \notin Range(fieldnames)))>>

Raised(kind, names) == [kind |-> kind, names |-> names]

NoError == Raised("none", <<>>)

\* [tag for tag in tags if tag not in reader.fieldnames]
missing_tags(ts, fieldnames) ==
    SelectSeq(ts, LAMBDA t : t \notin Range(fieldnames))


\* the validation without its key column check
ValidateTagsOnly(fieldnames, ts, key) ==
    IF fieldnames = <<>>
    THEN Raised("CSV file has no header row.", <<>>)
    ELSE IF SelectSeq(ts, LAMBDA t : t \notin Range(fieldnames)) # <<>>
    THEN Raised("CSV is missing tag columns: ",
                Sorted(SelectSeq(ts, LAMBDA t : t \notin Range(fieldnames))))
    ELSE NoError

\* build_indexes, lines 79-91: what the validation raises
Validate(fieldnames, ts, key) ==
    IF fieldnames = <<>>
    THEN Raised("CSV file has no header row.", <<>>)
    ELSE IF missing_tags(ts, fieldnames) # <<>>
    THEN Raised("CSV is missing tag columns: ",
                Sorted(missing_tags(ts, fieldnames)))
    ELSE IF key \notin Range(fieldnames)
    THEN Raised("CSV is missing required column: ", <<key>>)
    ELSE NoError

\* csv.DictReader: position of a column in the header
ColumnOf(fieldnames, col) == CHOOSE i \in 1..Len(fieldnames) : fieldnames[i] = col

\* row.get(col) is not None: a short row lacks its trailing cells
HasCell(fieldnames, row, col) ==
    /\ col \in Range(fieldnames)
    /\ ColumnOf(fieldnames, col) <= Len(row)

\* row.get(col) or ""
CellOrEmpty(fieldnames, row, col) ==
    IF HasCell(fieldnames, row, col) THEN row[ColumnOf(fieldnames, col)] ELSE <<>>

\* line 94: (row.get(study_uid_column) or "").strip()
StudyUid(fieldnames, row, key) == Strip(CellOrEmpty(fieldnames, row, key))

\* only a blank identifier skips the row
RowSkippedIfBlank(uid, tokens) == uid = <<>>

\* lines 95-96: the row is skipped
RowSkipped(uid, tokens) == uid \in tokens

\* the raw value, not stripped
TagValueRaw(fieldnames, row, tag) == row[ColumnOf(fieldnames, tag)]

\* line 102: raw_value.strip()
TagValue(fieldnames, row, tag) == Strip(row[ColumnOf(fieldnames, tag)])

\* line 105: indexes[tag][value].add(study_uid)
AddUid(idx, tag, value, uid) ==
    [idx EXCEPT ![tag] =
        IF value \in DOMAIN @
        THEN [@ EXCEPT ![value] = @ \cup {uid}]
        ELSE (value :> {uid}) @@ @]

\* lines 98-105: the loop over the tags for one row
RECURSIVE AddTags(_, _, _, _, _, _)
AddTags(idx, fieldnames, row, ts, uid, tokens) ==
    IF ts = <<>> THEN idx
    ELSE IF ~HasCell(fieldnames, row, Head(ts))
         THEN AddTags(idx, fieldnames, row, Tail(ts), uid, tokens)
    ELSE IF TagValue(fieldnames, row, Head(ts)) \in tokens
         THEN AddTags(idx, fieldnames, row, Tail(ts), uid, tokens)
    ELSE AddTags(AddUid(idx, Head(ts), TagValue(fieldnames, row, Head(ts)), uid),
                 fieldnames, row, Tail(ts), uid, tokens)

\* lines 93-105: one row of the reader
AddRow(idx, fieldnames, row, ts, key, tokens) ==
    IF RowSkipped(StudyUid(fieldnames, row, key), tokens) THEN idx
    ELSE AddTags(idx, fieldnames, row, ts, StudyUid(fieldnames, row, key), tokens)

\* json.dump(d, sort_keys=True): the items in key order
JsonDump(d) ==
    LET ks == SortedSet(DOMAIN d) IN [i \in 1..Len(ks) |-> <<ks[i], d[ks[i]]>>]

\* lines 120-122: {value: sorted(uids) for value, uids in value_map.items()}
Serializable(value_map) ==
    [v \in DOMAIN value_map |-> SortedSet(value_map[v])]

(***************************************************************************)
(* The world the index builder runs in.                                    *)
(***************************************************************************)
TagAB == <<"a", " ", "b">>
TagA_B == <<"a", "_", "b">>
KeyColumn == <<"u", "i", "d">>
Filename == <<"F", "i", "l", "e", "n", "a", "m", "e">>

\* the tags files that are explored
TagsFiles ==
    {<<>>,
     <<<<"#", " ", "c">>, <<>>>>,
     <<<<" ", "a", " ", "b", " ">>>>,
     <<TagA_B>>,
     <<TagAB, TagAB>>,
     <<TagAB, <<"#">>, TagA_B>>,
     <<TagA_B, TagAB>>}

\* the CSV headers that are explored
Headers ==
    {<<>>,
     <<TagAB, KeyColumn, TagA_B>>,
     <<TagAB, TagA_B>>,
     <<KeyColumn, TagA_B>>,
     <<Filename, TagAB>>,
     <<Filename>>}

\* the cells a row may hold
Cells == {<<>>, <<" ", "x", " ">>, <<"y">>, <<"n", "a", "n">>}

\* the rows DictReader yields under a header: never empty, never longer
RowsOf(fieldnames) == UNION {[1..n -> Cells] : n \in 1..Len(fieldnames)}

\* what an earlier run left in the output directory
StaleJson == <<<<<<"o", "l", "d">>, <<>>>>>>
InitialDir == (IndexFileName(TagA_B) :> StaleJson) @@ (ManifestFileName :> StaleJson)

IdleE ==
    /\ manifest = <<>>
    /\ files = [p \in RealPaths |-> [kind |-> "missing", ds |-> {}]]
    /\ list_of_tags = <<>>
    /\ max_workers = 1
    /\ pc = "idle"
    /\ filelist = <<>>
    /\ fut = <<>>
    /\ handled = {}
    /\ rows = <<>>
    /\ df = <<>>
    /\ csv_out = <<>>
    /\ stderr = <<>>
    /\ exit_code = -1

InitI ==
    /\ IdleE
    /\ \/ /\ caller = "main"
          /\ csv_exists \in BOOLEAN
          /\ tags_exists \in BOOLEAN
          /\ token_arg \in {{}, {<<"x", " ">>}}
       \/ /\ caller = "test"
          /\ csv_exists = TRUE
          /\ tags_exists = TRUE
          /\ token_arg \in {{}, {<<"x">>}}
    /\ tags_lines \in TagsFiles
    /\ header \in Headers
    /\ study_uid_column = KeyColumn
    /\ ipc = "main"
    /\ tags = <<>>
    /\ missing_tokens = {}
    /\ table = <<>>
    /\ indexes = <<>>
    /\ error = NoError
    /\ written = 0
    /\ index_manifest = EmptyMap
    /\ outdir = InitialDir
    /\ stdout = <<>>
    /\ iexit = -1

IFrame == UNCHANGED <<caller, csv_exists, tags_exists, tags_lines, header,
                      study_uid_column, token_arg>>

\* main, lines 134-153
IndexMain ==
    /\ ipc = "main"
    /\ caller = "main"
    /\ IF ~csv_exists \/ ~tags_exists \/ load_tags(tags_lines) = <<>>
       THEN /\ ipc' = "exit"
            /\ iexit' = 1
            /\ stderr' = stderr \o <<Line("ERROR", <<>>, 0)>>
            /\ UNCHANGED <<tags, missing_tokens>>
       ELSE /\ ipc' = "build"
            /\ tags' = load_tags(tags_lines)
            /\ missing_tokens' = MISSING_TOKENS \cup {Strip(t) : t \in token_arg}
            /\ UNCHANGED <<iexit, stderr>>
    /\ UNCHANGED <<table, indexes, error, written, index_manifest, outdir, stdout>>
    /\ IFrame
    /\ UNCHANGED <<manifest, files, list_of_tags, max_workers, pc, filelist,
                   fut, handled, rows, df, csv_out, exit_code>>

\* build_indexes(csv_path, tags, study_uid_column, missing_tokens) called
\* with a token set of the caller's own
TestCall ==
    /\ ipc = "main"
    /\ caller = "test"
    /\ ipc' = "build"
    /\ tags' = load_tags(tags_lines)
    /\ missing_tokens' = token_arg
    /\ UNCHANGED <<table, indexes, error, written, index_manifest, outdir,
                   stdout, iexit, stderr>>
    /\ IFrame
    /\ UNCHANGED <<manifest, files, list_of_tags, max_workers, pc, filelist,
                   fut, handled, rows, df, csv_out, exit_code>>

\* build_indexes, lines 73-91; main, lines 162-164
BuildOpen ==
    /\ ipc = "build"
    /\ indexes' = [t \in Range(tags) |-> EmptyMap]
    /\ error' = Validate(header, tags, study_uid_column)
    /\ IF error' = NoError
       THEN /\ ipc' = "rows"
            /\ UNCHANGED <<iexit, stderr>>
       ELSE IF caller = "main"
       THEN /\ ipc' = "exit"
            /\ iexit' = 1
            /\ stderr' = stderr \o <<Line("ERROR", <<>>, 0)>>
       ELSE /\ ipc' = "raised"
            /\ UNCHANGED <<iexit, stderr>>
    /\ UNCHANGED <<tags, missing_tokens, table, written, index_manifest, outdir,
                   stdout>>
    /\ IFrame
    /\ UNCHANGED <<manifest, files, list_of_tags, max_workers, pc, filelist,
                   fut, handled, rows, df, csv_out, exit_code>>

\* build_indexes, lines 93-105: the reader yields one more row
BuildRow ==
    /\ ipc = "rows"
    /\ Len(table) < MaxRows
    /\ \E row \in RowsOf(header) :
          /\ table' = Append(table, row)
          /\ indexes' = AddRow(indexes, header, row, tags, study_uid_column,
                               missing_tokens)
    /\ UNCHANGED <<ipc, tags, missing_tokens, error, written, index_manifest,
                   outdir, stdout, iexit, stderr>>
    /\ IFrame
    /\ UNCHANGED <<manifest, files, list_of_tags, max_workers, pc, filelist,
                   fut, handled, rows, df, csv_out, exit_code>>

\* build_indexes, line 107: the reader is exhausted; write_indexes, 113-115
BuildReturn ==
    /\ ipc = "rows"
    /\ ipc' = IF caller = "main" THEN "write" ELSE "built"
    /\ written' = 0
    /\ index_manifest' = EmptyMap
    /\ UNCHANGED <<tags, missing_tokens, table, indexes, error, outdir, stdout,
                   iexit, stderr>>
    /\ IFrame
    /\ UNCHANGED <<manifest, files, list_of_tags, max_workers, pc, filelist,
                   fut, handled, rows, df, csv_out, exit_code>>

\* write_indexes, lines 117-126: one iteration of the loop over the tags
WriteIndex ==
    /\ ipc = "write"
    /\ written < Len(DictKeys(tags))
    /\ LET tag == DictKeys(tags)[written + 1]
           filename == IndexFileName(tag)
       IN /\ outdir' = (filename :> JsonDump(Serializable(indexes[tag]))) @@ outdir
          /\ stdout' = stdout \o <<Line("WROTE", filename, 0)>>
          /\ index_manifest' =
                (filename :> SortedSet(DOMAIN indexes[tag])) @@ index_manifest
    /\ written' = written + 1
    /\ UNCHANGED <<ipc, tags, missing_tokens, table, indexes, error, iexit,
                   stderr>>
    /\ IFrame
    /\ UNCHANGED <<manifest, files, list_of_tags, max_workers, pc, filelist,
                   fut, handled, rows, df, csv_out, exit_code>>

\* write_indexes, lines 128-131; main, line 167
WriteManifest ==
    /\ ipc = "write"
    /\ written = Len(DictKeys(tags))
    /\ outdir' = (ManifestFileName :> JsonDump(index_manifest)) @@ outdir
    /\ stdout' = stdout \o <<Line("WROTE", ManifestFileName, 0)>>
    /\ ipc' = "exit"
    /\ iexit' = 0
    /\ UNCHANGED <<tags, missing_tokens, table, indexes, error, written,
                   index_manifest, stderr>>
    /\ IFrame
    /\ UNCHANGED <<manifest, files, list_of_tags, max_workers, pc, filelist,
                   fut, handled, rows, df, csv_out, exit_code>>

NextI ==
    \/ IndexMain
    \/ TestCall
    \/ BuildOpen
    \/ BuildRow
    \/ BuildReturn
    \/ WriteIndex
    \/ WriteManifest

\* the index builder
SpecI == InitI /\ [][NextI]_vars

(***************************************************************************)
(* Properties of the extraction engine.                                    *)
(***************************************************************************)
Returned == pc \in {"returned", "exit"} /\ exit_code # 1

FrameRows == [k \in 1..Len(df) |-> df[k].row]

IsSortedByFilename(rs) ==
    \A k \in 1..(Len(rs) - 1) : StrLeq(rs[k][1], rs[k + 1][1])

\* the read of the file at p yields a row
Readable(p) == files[p].kind = "dicom"

Occurrences(s, x) == Cardinality({i \in 1..Len(s) : s[i] = x})

\* C1: whatever the worker count and the completion order, the table that
\* dcmtag2table_from_file_list returns (and the CSV written from it) has
\* r1.Filename <= r2.Filename for every two consecutive rows r1, r2.
C1_SortedByFilename ==
    /\ Returned => IsSortedByFilename(FrameRows)
    /\ csv_out # <<>> => IsSortedByFilename(csv_out[1].rows)

\* two rows were collected out of Filename order and the table was returned
C1_Witness ==
    /\ pc = "returned"
    /\ Len(rows) >= 2
    /\ ~IsSortedByFilename(rows)

\* C2: the returned table holds exactly one row per entry of the filtered
\* list whose read succeeded, that row being the entry's own, and none for an
\* entry whose read failed; so its length is the number of entries minus the
\* number of failed ones.
C2_OneRowPerReadableEntry ==
    Returned =>
        /\ \A p \in RealPaths :
              Cardinality({k \in 1..Len(df) : df[k].row[1] = p})
                = IF Readable(p) THEN Occurrences(filelist, p) ELSE 0
        /\ \A k \in 1..Len(df) :
              /\ Len(df[k].row) = 1 + Len(list_of_tags)
              /\ \A t \in 1..Len(list_of_tags) :
                    df[k].row[1 + t] =
                       IF DsHas(files[df[k].row[1]].ds, list_of_tags[t])
                       THEN DsValue(files[df[k].row[1]].ds, list_of_tags[t])
                       ELSE NotFound
        /\ Len(df) = Len(filelist)
                       - Cardinality({i \in 1..Len(filelist) : ~Readable(filelist[i])})

\* a table was returned for a list with a file read twice, a failed read in
\* the worker and a failed result
C2_Witness ==
    /\ pc = "returned"
    /\ \E i, j \in 1..Len(filelist) :
          i # j /\ filelist[i] = filelist[j] /\ Readable(filelist[i])
    /\ \E i \in 1..Len(filelist) : ~Readable(filelist[i])

\* the table as a function of the inputs alone: the rows of the readable
\* entries of the manifest, in manifest order, then insertion-sorted
RECURSIVE InsertRow(_, _)
InsertRow(sorted, r) ==
    IF sorted = <<>> THEN <<r>>
    ELSE IF StrLeq(Head(sorted)[1], r[1]) /\ Head(sorted)[1] # r[1]
         THEN <<Head(sorted)>> \o InsertRow(Tail(sorted), r)
         ELSE <<r>> \o sorted

RECURSIVE ExpectedRows(_)
ExpectedRows(entries) ==
    IF entries = <<>> THEN <<>>
    ELSE IF Head(entries) # <<>> /\ Readable(Head(entries))
         THEN InsertRow(ExpectedRows(Tail(entries)),
                        <<Head(entries)>> \o
                        [t \in 1..Len(list_of_tags) |->
                            IF DsHas(files[Head(entries)].ds, list_of_tags[t])
                            THEN DsValue(files[Head(entries)].ds, list_of_tags[t])
                            ELSE NotFound])
         ELSE ExpectedRows(Tail(entries))

\* C3: the returned table is a function of the manifest, the files and the
\* tag list only: for every worker count and every interleaving it is the
\* same sequence of rows, and so is the CSV.
C3_SameTableForEverySchedule ==
    /\ Returned => FrameRows = ExpectedRows(manifest)
    /\ csv_out # <<>> =>
          csv_out[1] = [header |-> <<"Filename">> \o list_of_tags,
                        rows |-> ExpectedRows(manifest)]

\* two workers, three rows collected in an order that is neither the
\* manifest's nor the sorted one
C3_Witness ==
    /\ pc = "exit"
    /\ exit_code = 0
    /\ PoolSize >= 2
    /\ Len(rows) >= 3
    /\ rows # ExpectedRows(manifest)
    /\ \E k \in 1..Len(rows) : rows[k][1] # filelist[k]

Failed(i) == UnitResult(i) = None

C4_Done ==
    /\ pc = "exit"
    /\ exit_code = 0
    /\ csv_out # <<>>
    /\ \A i \in DOMAIN fut : fut[i] = "done" /\ i \in handled
    /\ \A i \in DOMAIN fut :
          Failed(i) => \E k \in 1..Len(stdout) :
                          stdout[k] = Line("Skipping", filelist[i], 0)

\* C4: a manifest with entries, whatever number of its files fail to read:
\* under fair scheduling the run reaches its end with every unit completed
\* and consumed, a skip line naming the path of each failed unit, the table
\* written and exit code 0.
C4_FailuresNeverAbort == (manifest # <<>>) ~> C4_Done

\* a run over two or more files, all of which failed, ended with exit code 0
C4_Witness ==
    /\ C4_Done
    /\ Len(filelist) >= 2
    /\ \A i \in DOMAIN fut : Failed(i)
    /\ \E i \in DOMAIN fut : ResultRaises(i)
    /\ \E i \in DOMAIN fut : ~ResultRaises(i)

\* C9: no table file exists while a unit is pending or running or not yet
\* consumed, the file that is written holds the sorted rows, and a run that
\* is terminated leaves no table file.
C9_TableOnlyAfterDrain ==
    /\ csv_out # <<>> =>
          /\ \A i \in DOMAIN fut : fut[i] = "done" /\ i \in handled
          /\ IsSortedByFilename(csv_out[1].rows)
          /\ csv_out[1].rows = FrameRows
    /\ pc = "aborted" => csv_out = <<>>

\* terminated with a row already collected and another unit still running
C9_Witness ==
    /\ pc = "aborted"
    /\ rows # <<>>
    /\ \E i \in DOMAIN fut : fut[i] = "running"
    /\ csv_out = <<>>

(***************************************************************************)
(* Properties of the index builder.                                        *)
(***************************************************************************)
\* build_indexes returned (or is still reading rows) without raising
BuildSucceeded ==
    \/ ipc \in {"rows", "write", "built"}
    \/ ipc = "exit" /\ iexit = 0

\* build_indexes got as far as its validation
BuildRan == BuildSucceeded \/ error # NoError

\* trim(row[key]); a row too short to hold the key cell reads as ""
TrimmedKey(row) ==
    IF ColumnOf(header, study_uid_column) <= Len(row)
    THEN Strip(row[ColumnOf(header, study_uid_column)])
    ELSE <<>>

\* the rows read so far that back identifier set index[A][V]
BackingRows(A, V) ==
    {i \in 1..Len(table) :
        /\ TrimmedKey(table[i]) \notin missing_tokens
        /\ ColumnOf(header, A) <= Len(table[i])
        /\ Strip(table[i][ColumnOf(header, A)]) = V
        /\ V \notin missing_tokens}

ExpectedIds(A, V) == {TrimmedKey(table[i]) : i \in BackingRows(A, V)}

\* C5: for every requested attribute A and string V, index[A][V] is exactly
\* the set of trimmed key values of the rows whose trimmed key is no missing
\* token, whose A cell is present and trims to V, V being no missing token;
\* V is a key of index[A] only if there is such a row.
C5_IndexIsExactlyBackedRows ==
    BuildSucceeded =>
        /\ DOMAIN indexes = Range(tags)
        /\ \A A \in Range(tags) :
              \A V \in {Strip(c) : c \in Cells} \cup DOMAIN indexes[A] :
                 /\ (V \in DOMAIN indexes[A]) = (ExpectedIds(A, V) # {})
                 /\ V \in DOMAIN indexes[A] => indexes[A][V] = ExpectedIds(A, V)

\* a run of the CLI: an identifier set of two identifiers, a padded cell
\* and a cell that was skipped as a missing token
C5_Witness ==
    /\ ipc = "exit"
    /\ iexit = 0
    /\ \E A \in Range(tags) : \E V \in DOMAIN indexes[A] :
          Cardinality(indexes[A][V]) = 2
    /\ \E i \in 1..Len(table) : \E A \in Range(tags) :
          /\ TrimmedKey(table[i]) \notin missing_tokens
          /\ ColumnOf(header, A) <= Len(table[i])
          /\ Strip(table[i][ColumnOf(header, A)]) \in missing_tokens \ {<<>>}
    /\ \E i \in 1..Len(table) : \E k \in 1..Len(table[i]) :
          Strip(table[i][k]) # table[i][k]

AbsentTags == {t \in Range(tags) : t \notin Range(header)}

AbsentColumns == AbsentTags \cup ({study_uid_column} \ Range(header))

AllIds == UNION {UNION {indexes[A][V] : V \in DOMAIN indexes[A]} : A \in DOMAIN indexes}

\* C7 as claimed: for every missing-token set handed to build_indexes, every
\* identifier of the result is non-blank and is no missing token.
C7_IdsNonBlankNonMissing ==
    BuildSucceeded =>
        \A id \in AllIds : Strip(id) # <<>> /\ id \notin missing_tokens

\* C7 as amended: for every missing-token set handed to build_indexes, no
\* identifier of the result is a missing token; every identifier is non-blank
\* when the set holds the empty string, as every set that main builds does.
C7_IdsNonMissing ==
    /\ BuildSucceeded =>
          \A id \in AllIds :
             /\ id \notin missing_tokens
             /\ <<>> \in missing_tokens => Strip(id) # <<>>
    /\ (caller = "main" /\ BuildSucceeded) => <<>> \in missing_tokens

\* a caller's own token set, a row skipped for it, another row indexed
C7_Witness ==
    /\ ipc = "built"
    /\ missing_tokens # {}
    /\ ~(MISSING_TOKENS \subseteq missing_tokens)
    /\ \E i \in 1..Len(table) : TrimmedKey(table[i]) \in missing_tokens
    /\ AllIds # {}

\* the manifest file's entry under a file name
ManifestEntries(filename) ==
    {e[2] : e \in {x \in Range(outdir[ManifestFileName]) : x[1] = filename}}

\* C8 as claimed: after a successful run every requested attribute A has its
\* own output: the file sanitize_filename(A).json holds A's value -> sorted
\* identifiers map and the manifest entry under that file name is the sorted
\* sequence of A's values.
C8_EveryAttributeOwnOutput ==
    (ipc = "exit" /\ iexit = 0) =>
        \A A \in Range(tags) :
           /\ IndexFileName(A) \in DOMAIN outdir
           /\ outdir[IndexFileName(A)] = JsonDump(Serializable(indexes[A]))
           /\ ManifestEntries(IndexFileName(A)) = {SortedSet(DOMAIN indexes[A])}

\* the inputs fail a precondition of the index builder
PreconditionFails ==
    \/ ~csv_exists
    \/ ~tags_exists
    \/ load_tags(tags_lines) = <<>>
    \/ header = <<>>
    \/ \E t \in Range(load_tags(tags_lines)) : t \notin Range(header)
    \/ study_uid_column \notin Range(header)

Wrote == \E k \in 1..Len(stdout) : stdout[k].kind = "WROTE"

\* C10: a run of the index builder whose inputs fail a precondition ends
\* with exit code 1 and, at every moment, leaves the output directory as it
\* found it; no file is written by a run that exits with code 1.
C10_FailureLeavesOutputUntouched ==
    caller = "main" =>
        /\ PreconditionFails =>
              /\ outdir = InitialDir
              /\ ~Wrote
              /\ ipc = "exit" => iexit = 1
              /\ ipc \in {"main", "build", "exit"}
        /\ iexit = 1 => (outdir = InitialDir /\ ~Wrote /\ PreconditionFails)

\* the last of the checks failed: header and tags are there, the key
\* column is not
C10_Witness ==
    /\ caller = "main"
    /\ ipc = "exit"
    /\ iexit = 1
    /\ error.names = <<study_uid_column>>
    /\ Len(tags) = 2

====
